---- MODULE Spec2Model ----
(***************************************************************************)
(* A model of gwf's backend layer: the dependency-walking scheduler of     *)
(* gwf/backends/base.py (Backend.schedule, Backend.schedule_many) and the  *)
(* Sun Grid Engine operations of gwf/backends/sge.py (SGEOps).             *)
(***************************************************************************)
EXTENDS Integers, Sequences, FiniteSets, TLC

\* ------------------------------------------------------------------ bounds
NumTargets == 3
MaxMany == 2
MaxJobs == 3
MaxCores == 4
MaxMemLen == 3
MaxPolls == 2
MaxRuns == 3
MaxHolds == 2

Targets == 1..NumTargets
JobIds == 1..MaxJobs
NoJob == 0

\* ----------------------------------------------------------------- helpers
Range(s) == {s[i] : i \in 1..Len(s)}

Min(S) == CHOOSE x \in S : \A y \in S : x <= y

RECURSIVE SortedSeq(_)
SortedSeq(S) == IF S = {} THEN <<>> ELSE <<Min(S)>> \o SortedSeq(S \ {Min(S)})

RECURSIVE Flatten(_)
Flatten(ss) == IF ss = <<>> THEN <<>> ELSE Head(ss) \o Flatten(Tail(ss))

Count(s, x) == Cardinality({i \in 1..Len(s) : s[i] = x})

Reverse(s) == [i \in 1..Len(s) |-> s[Len(s) + 1 - i]]

\* Every list of up to n targets (the argument of schedule_many).
TargetLists(n) == UNION {[1..k -> Targets] : k \in 0..n}

\* -------------------------------------------------------- option vocabulary
\* OPTION_FLAGS of sge.py: the option names compile_script can render.
OPTION_FLAGS ==
    [cores |-> "-pe smp ", memory |-> "-l h_vmem=", walltime |-> "-l h_rt=",
     queue |-> "-q ", account |-> "-P "]

\* TARGET_DEFAULTS of sge.py; its keys are the backend's supported options.
TARGET_DEFAULTS ==
    [cores |-> 1, memory |-> <<"1", "g">>, walltime |-> <<"01:00:00">>,
     queue |-> <<"None">>, account |-> <<"None">>]

supported_options == DOMAIN TARGET_DEFAULTS

VARIABLES
    dependencies,   \* workflow.dependencies: target -> set of targets
    options,        \* target.options: target -> (option name -> value)
    should_run,     \* workflow.should_run: target -> BOOLEAN (the oracle)
    warnings,       \* option names Backend.__init__ warned about
    tracked,        \* target -> job handle, NoJob when it has no job record
    pc,             \* "idle", "enter", "walk", "returned", "raised"
    mode,           \* "schedule" or "schedule_many": the call in progress
    todo,           \* targets schedule_many has still to pass to schedule
    root,           \* the target of the schedule call in progress
    walked,         \* the schedule call in progress found its target unsubmitted
    path,           \* what is left of dfs(target, dependencies)
    scheduled,      \* schedule's local list
    schedules,      \* schedule_many's local list
    submits,        \* targets submit() was called on by the call in progress
    error,          \* the exception that ended the call, "none" if none
    job_left,       \* a job record was dropped since the call began
    oracle_changed, \* should_run changed since the call began
    repeat,         \* the call repeats the previous schedule(T), which
                    \* returned, and nothing external changed since it began
    compiled,       \* the last compile_script call: its target and its result
    listing,        \* the scheduler's queue: job id -> state code
    status,         \* the status cache: job id -> BackendStatus
    qstat_calls,    \* number of qstat invocations so far
    refreshes,      \* number of status-cache refreshes so far
    logfiles,       \* the log directory: path -> the runs whose output it holds
    runs,           \* target -> the runs of the target so far, oldest first
    log_result,     \* the last logs call: its arguments and what it gave
    configured,     \* configure has been called on the backend
    called,         \* the last call made on the backend from outside schedule
    job_names,      \* the jobs qsub accepted for those calls: job id -> target
    exes,           \* the executables on the host's search path
    setup           \* the backend's entry: the priority computed at import

sched_vars == <<pc, mode, todo, root, walked, path, scheduled, schedules, submits, error>>
hist_vars == <<job_left, oracle_changed, repeat>>
workflow_vars == <<dependencies, options, warnings>>
status_vars == <<listing, status, qstat_calls, refreshes>>
logs_vars == <<logfiles, runs, log_result>>
api_vars == <<configured, called, job_names>>
probe_vars == <<exes, setup>>
other_vars == <<compiled, status_vars, logs_vars, api_vars, probe_vars>>
vars == <<workflow_vars, should_run, tracked, sched_vars, hist_vars, other_vars>>

\* ------------------------------------------------------------ SGEOps (sge.py)
\* Strings are sequences of one-character strings: "8g" is <<"8", "g">>.
Digits == <<"0", "1", "2", "3", "4", "5", "6", "7", "8", "9">>

IsDigit(c) == c \in Range(Digits)

DigitVal(c) == CHOOSE d \in 0..9 : Digits[d + 1] = c

\* int(s) for a non-empty string of digits.
RECURSIVE ParseInt(_)
ParseInt(s) ==
    IF s = <<>> THEN 0
    ELSE ParseInt(SubSeq(s, 1, Len(s) - 1)) * 10 + DigitVal(s[Len(s)])

\* "{}".format(n) for n >= 0.
RECURSIVE FormatInt(_)
FormatInt(n) ==
    IF n < 10 THEN <<Digits[n + 1]>>
    ELSE FormatInt(n \div 10) \o <<Digits[(n % 10) + 1]>>

\* re.sub(r"[^0-9]+", "", option_value)
StripNonDigits(s) == SelectSeq(s, IsDigit)

\* re.sub(r"[0-9]+", "", option_value)
StripDigits(s) == SelectSeq(s, LAMBDA c : ~IsDigit(c))

\* Mutation: the total is emitted, not the share per core.
PerCoreMemoryTotal(option_value, cores) ==
    FormatInt(ParseInt(StripNonDigits(option_value))) \o StripDigits(option_value)

\* compile_script, the memory branch: "{}{}".format(number // cores, unit).
PerCoreMemory(option_value, cores) ==
    FormatInt(ParseInt(StripNonDigits(option_value)) \div cores)
        \o StripDigits(option_value)

\* The exception rendering one option raises, "none" when it renders.
OptionError(opts, option_name) ==
    IF option_name = "memory" /\ StripNonDigits(opts.memory) = <<>>
        THEN "ValueError"
    ELSE IF option_name = "memory" /\ "cores" \notin DOMAIN opts
        THEN "KeyError"
    ELSE IF option_name = "memory" /\ opts.cores = 0
        THEN "ZeroDivisionError"
    ELSE IF option_name \notin DOMAIN OPTION_FLAGS
        THEN "KeyError"
    ELSE "none"

\* The value of one directive, as text.
OptionValue(opts, option_name) ==
    IF option_name = "memory" THEN PerCoreMemory(opts.memory, opts.cores)
    ELSE IF option_name = "cores" THEN FormatInt(opts.cores)
    ELSE opts[option_name]

\* The log file a compiled script names: <working_dir>/.gwf/logs/<name>.<ext>.
\* The name has no run component (rotation 0 stands for "no suffix").
ScriptLogPath(target, ext) == [target |-> target, ext |-> ext, rotation |-> 0]

\* compile_script(target): the exception it raises, or the script's directives.
\* With several failing options the dict's order picks the one raised.
compile_script(target) ==
    LET opts == options[target]
        errs == {OptionError(opts, n) : n \in DOMAIN opts} \ {"none"}
    IN  IF errs # {}
        THEN [error |-> CHOOSE e \in errs : TRUE]
        ELSE [error |-> "none",
              name |-> target,
              directives |->
                  [n \in DOMAIN opts |->
                      <<"#$ ", OPTION_FLAGS[n]>> \o OptionValue(opts, n)],
              stdout |-> ScriptLogPath(target, "stdout"),
              stderr |-> ScriptLogPath(target, "stderr")]

\* ",".join(parts)
RECURSIVE Join(_, _)
Join(sep, parts) ==
    IF parts = <<>> THEN <<>>
    ELSE IF Len(parts) = 1 THEN Head(parts)
    ELSE Head(parts) \o <<sep>> \o Join(sep, Tail(parts))

\* submit_target, the hold arguments: none for an empty dependency list, else
\* "-hold_jid" and the comma-joined handles.
HoldArgs(dependency_ids) ==
    IF dependency_ids # <<>>
    THEN << <<"-hold_jid">>, Join(",", dependency_ids) >>
    ELSE <<>>

\* submit_target(target, dependencies): the exception compile_script raised and
\* no command, or the one qsub command it runs with the script as its input.
submit_target(target, dependency_ids) ==
    LET script == compile_script(target)
    IN  IF script.error # "none"
        THEN [error |-> script.error, commands |-> <<>>]
        ELSE [error |-> "none",
              commands |-> << [exe |-> "qsub",
                               args |-> << <<"-terse">> >> \o HoldArgs(dependency_ids),
                               input |-> script] >>]

\* cancel_job(job_id): the one qdel command it runs.
cancel_job(job_id) == [commands |-> << [exe |-> "qdel", args |-> <<job_id>>] >>]

\* utils.has_exe(name): the executable is on the host's search path.
has_exe(name) == name \in exes

\* priority(): the backend's preference when qsub and qdel are there.
priority ==
    IF has_exe("qsub") /\ has_exe("qdel") THEN 50 ELSE -100

\* ------------------------------------------------- the workflow and the walk
\* Acyclic graphs: a target depends only on lower-numbered targets.
Graphs == {g \in [Targets -> SUBSET Targets] : \A t \in Targets : g[t] \subseteq 1..(t - 1)}

BaseOptions == [cores |-> 1, memory |-> <<"1", "g">>]

\* A target carrying an option name the backend does not support.
ExtraOptions == [cores |-> 1, memory |-> <<"1", "g">>, nodes |-> <<"2">>]

\* Workflows in which at most one target carries the unsupported option.
OptionMaps ==
    {[t \in Targets |-> IF t = u THEN ExtraOptions ELSE BaseOptions] :
        u \in Targets \cup {0}}

\* utils.dfs(root, dependencies): depth first, a target after its dependencies,
\* each target once.
RECURSIVE dfs_inner(_, _), dfs_each(_, _)
dfs_each(nodes, visited) ==
    IF nodes = <<>> THEN visited
    ELSE dfs_each(Tail(nodes), dfs_inner(Head(nodes), visited))
dfs_inner(node, visited) ==
    IF node \in Range(visited) THEN visited
    ELSE Append(dfs_each(SortedSeq(dependencies[node]), visited), node)

dfs(target) == dfs_inner(target, <<>>)

\* The transitive dependency set of a target, the target included.
RECURSIVE Reach(_, _)
Reach(S, n) ==
    IF n = 0 THEN S
    ELSE Reach(S \cup UNION {dependencies[t] : t \in S}, n - 1)

Closure(target) == Reach({target}, NumTargets)

\* Mutation: a target is never found submitted.
submitted_never(target) == FALSE

\* Backend.submitted(target): the target has a job record.
submitted(target) == tracked[target] # NoJob

\* Backend.__init__: the option names it logs a warning for.
InitWarnings(opts) ==
    LET all_options == UNION {DOMAIN opts[t] : t \in Targets}
    IN  {option_name \in all_options : option_name \notin supported_options}

\* No call in progress, none made yet.
InitSched ==
    /\ pc = "idle"
    /\ mode = "schedule"
    /\ todo = <<>>
    /\ root = 0
    /\ walked = FALSE
    /\ path = <<>>
    /\ scheduled = <<>>
    /\ schedules = <<>>
    /\ submits = <<>>
    /\ error = "none"
    /\ job_left = FALSE
    /\ oracle_changed = FALSE
    /\ repeat = FALSE

\* No call was made on the backend from outside schedule.
InitCalled ==
    /\ called = [method |-> "none"]
    /\ job_names = <<>>

\* The host has the three executables; the entry's priority was computed there.
InitProbe ==
    /\ exes = {"qsub", "qdel", "qstat"}
    /\ setup = [probed |-> TRUE, priority |-> priority]

\* The backend was configured after its construction.
InitApi ==
    /\ configured = TRUE
    /\ InitCalled
    /\ InitProbe

\* Nothing compiled, polled, run or read yet; the queue is empty.
InitData ==
    /\ compiled = [target |-> 0]
    /\ listing = <<>>
    /\ status = <<>>
    /\ qstat_calls = 0
    /\ refreshes = 0
    /\ logfiles = <<>>
    /\ runs = [t \in Targets |-> <<>>]
    /\ log_result = [target |-> 0]

InitOther ==
    /\ InitApi
    /\ InitData

Init ==
    /\ dependencies \in Graphs
    /\ options \in OptionMaps
    /\ warnings = InitWarnings(options)
    /\ should_run \in [Targets -> BOOLEAN]
    /\ tracked = [t \in Targets |-> NoJob]
    /\ InitSched
    /\ InitOther

Idle == pc \in {"idle", "returned", "raised"}

\* A caller starts schedule(target) or schedule_many(targets); schedule_many of
\* no target returns its empty list without calling schedule. The call is now
\* the last call made on the backend.
Call(m, targets, rep) ==
    /\ Idle
    /\ mode' = m
    /\ todo' = targets
    /\ pc' = IF targets = <<>> THEN "returned" ELSE "enter"
    /\ root' = 0
    /\ walked' = FALSE
    /\ path' = <<>>
    /\ scheduled' = <<>>
    /\ schedules' = <<>>
    /\ submits' = <<>>
    /\ error' = "none"
    /\ job_left' = FALSE
    /\ oracle_changed' = FALSE
    /\ repeat' = rep
    /\ called' = [method |-> "none"]
    /\ UNCHANGED <<workflow_vars, should_run, tracked, compiled, status_vars,
                   logs_vars, configured, job_names, probe_vars>>

ScheduleCall ==
    \E target \in Targets :
        Call("schedule", <<target>>,
             pc = "returned" /\ mode = "schedule" /\ root = target
                 /\ ~job_left /\ ~oracle_changed)

ScheduleManyCall ==
    \E targets \in TargetLists(MaxMany) : Call("schedule_many", targets, FALSE)

\* schedule returns result: schedule_many appends it and goes on.
ReturnFrom(result, rest) ==
    /\ schedules' = Append(schedules, result)
    /\ pc' = IF rest = <<>> THEN "returned" ELSE "enter"

\* Mutation: the dependents first.
WalkOrderReversed(target) == Reverse(dfs(target))

\* Mutation: the direct dependencies only.
WalkOrderDirect(target) == Append(SortedSeq(dependencies[target]), target)

\* The order in which schedule visits the targets.
WalkOrder(target) == dfs(target)

\* Mutation: a backend that was not configured is used like any other.
NotConfiguredIgnored == "none"

\* What a method of the concrete backend raises before it does anything else:
\* ConfigurationError on a backend configure was not called on.
NotConfigured == IF configured THEN "none" ELSE "ConfigurationError"

\* Mutation: the target's own record is not looked at.
RootSubmittedIgnored(target) == FALSE

\* schedule's first test: the target itself is submitted.
RootSubmitted(target) == submitted(target)

\* schedule(target), up to the loop: a submitted target returns [] at once. The
\* submitted call is the first use of the backend and raises on one that was
\* not configured.
Enter ==
    /\ pc = "enter"
    /\ root' = Head(todo)
    /\ todo' = Tail(todo)
    /\ scheduled' = <<>>
    /\ IF NotConfigured # "none"
       THEN /\ walked' = FALSE
            /\ path' = <<>>
            /\ pc' = "raised"
            /\ error' = NotConfigured
            /\ UNCHANGED schedules
       ELSE /\ walked' = ~RootSubmitted(Head(todo))
            /\ error' = error
            /\ IF RootSubmitted(Head(todo))
               THEN /\ path' = <<>>
                    /\ ReturnFrom(<<>>, Tail(todo))
               ELSE /\ path' = WalkOrder(Head(todo))
                    /\ pc' = "walk"
                    /\ UNCHANGED schedules
    /\ UNCHANGED <<workflow_vars, should_run, tracked, mode,
                   submits, hist_vars, other_vars>>

\* The handles the scheduler can hand out: those no job record holds.
FreeJobIds == JobIds \ {tracked[t] : t \in Targets}

\* Mutation: the staleness check alone.
SkipStaleOnly(dependency) == ~should_run[dependency]

\* Mutation: the submitted check alone.
SkipSubmittedOnly(dependency) == submitted(dependency)

\* The loop's two skip conditions.
Skip(dependency) == submitted(dependency) \/ ~should_run[dependency]

\* Mutation: the failure is logged and the walk goes on.
RaiseSwallowed(exception) ==
    /\ error' = exception
    /\ path' = Tail(path)
    /\ UNCHANGED <<pc, tracked, scheduled>>

\* submit raises: nothing in schedule or schedule_many catches it, so the call
\* ends there with what was submitted left as it is.
Raise(exception) ==
    /\ pc' = "raised"
    /\ error' = exception
    /\ UNCHANGED <<tracked, path, scheduled>>

\* One iteration of schedule's loop. submit compiles the script and hands it to
\* qsub, which accepts it (a new handle is recorded) or rejects it.
Visit ==
    /\ pc = "walk"
    /\ path # <<>>
    /\ LET dependency == Head(path)
           script == compile_script(dependency)
       IN  IF Skip(dependency)
           THEN /\ path' = Tail(path)
                /\ UNCHANGED <<tracked, pc, scheduled, submits, error>>
           ELSE /\ submits' = Append(submits, dependency)
                /\ IF script.error # "none"
                   THEN Raise(script.error)
                   ELSE \E accepted \in BOOLEAN :
                        IF accepted
                        THEN /\ FreeJobIds # {}
                             /\ tracked' = [tracked EXCEPT ![dependency] = Min(FreeJobIds)]
                             /\ scheduled' = Append(scheduled, dependency)
                             /\ path' = Tail(path)
                             /\ UNCHANGED <<pc, error>>
                        ELSE Raise("SubmissionError")
    /\ UNCHANGED <<workflow_vars, should_run, mode, todo, root, walked, schedules,
                   hist_vars, other_vars>>

\* The loop is over: return scheduled (the local list is gone with the call).
Return ==
    /\ pc = "walk"
    /\ path = <<>>
    /\ ReturnFrom(scheduled, todo)
    /\ scheduled' = <<>>
    /\ UNCHANGED <<workflow_vars, should_run, tracked, mode, todo,
                   root, walked, path, submits, error, hist_vars, other_vars>>

\* The oracle's answer for one target changes (files appear or go stale).
OracleChange ==
    \E t \in Targets :
        /\ should_run' = [should_run EXCEPT ![t] = ~should_run[t]]
        /\ oracle_changed' = TRUE
        /\ UNCHANGED <<workflow_vars, tracked, sched_vars, job_left, repeat,
                       other_vars>>

\* A tracked job leaves the scheduler's queue and its record is dropped.
JobLeaves ==
    \E t \in Targets :
        /\ submitted(t)
        /\ tracked' = [tracked EXCEPT ![t] = NoJob]
        /\ job_left' = TRUE
        /\ UNCHANGED <<workflow_vars, should_run, sched_vars,
                       oracle_changed, repeat, other_vars>>

Next ==
    \/ ScheduleCall
    \/ ScheduleManyCall
    \/ Enter
    \/ Visit
    \/ Return
    \/ OracleChange
    \/ JobLeaves

Spec == Init /\ [][Next]_vars


\* ------------------------------------------------ compiling scripts (sge.py)
\* The characters memory values are drawn from: digits, unit letters.
MemChars == {"0", "1", "6", "8", "g", "m"}

\* Every memory value of 1..MaxMemLen such characters.
MemValues == UNION {[1..k -> MemChars] : k \in 1..MaxMemLen}

\* A workflow whose first target asks for some cores and some memory.
InitScript ==
    /\ dependencies = [t \in Targets |-> {}]
    /\ \E c \in 0..MaxCores, m \in MemValues :
           options = [t \in Targets |->
                         IF t = 1 THEN [cores |-> c, memory |-> m] ELSE BaseOptions]
    /\ warnings = InitWarnings(options)
    /\ should_run = [t \in Targets |-> TRUE]
    /\ tracked = [t \in Targets |-> NoJob]
    /\ InitSched
    /\ InitOther

\* compile_script(target) is called.
CompileScript ==
    \E target \in Targets :
        /\ compiled' = [target |-> target, script |-> compile_script(target)]
        /\ UNCHANGED <<workflow_vars, should_run, tracked, sched_vars, hist_vars,
                       status_vars, logs_vars, api_vars, probe_vars>>

SpecScript == InitScript /\ [][CompileScript]_vars

\* The value a decimal numeral stands for, read from the left.
RECURSIVE LeftValue(_, _)
LeftValue(digits, acc) ==
    IF digits = <<>> THEN acc
    ELSE LeftValue(Tail(digits), 10 * acc + DigitVal(Head(digits)))

\* digits is the decimal numeral of n: its value is n and it has no leading zero.
IsNumeralOf(digits, n) ==
    /\ digits # <<>>
    /\ \A i \in 1..Len(digits) : IsDigit(digits[i])
    /\ Len(digits) > 1 => digits[1] # "0"
    /\ LeftValue(digits, 0) = n

\* value is <n><unit>, its first k characters the number: digits, then no digit.
SplitsAt(value, k) ==
    /\ k \in 1..Len(value)
    /\ \A i \in 1..k : IsDigit(value[i])
    /\ \A i \in (k + 1)..Len(value) : ~IsDigit(value[i])

\* C8. Memory conversion: for a target with cores = c >= 1 and memory =
\* <n><unit>, compile_script succeeds, its memory directive is "-l h_vmem="
\* followed by the numeral of n div c and then <unit>, and its cores directive
\* is "-pe smp " followed by the numeral of c.
C8_MemoryConversion ==
    compiled.target # 0 =>
        LET opts == options[compiled.target]
            c == opts.cores
            script == compiled.script
        IN  \A k \in 1..Len(opts.memory) :
                (c >= 1 /\ SplitsAt(opts.memory, k)) =>
                    /\ script.error = "none"
                    /\ LET line == script.directives.memory
                           unit == SubSeq(opts.memory, k + 1, Len(opts.memory))
                           n == LeftValue(SubSeq(opts.memory, 1, k), 0)
                           cut == Len(line) - Len(unit)
                           number == SubSeq(line, 3, cut)
                       IN  /\ Len(line) >= 3 + Len(unit)
                           /\ line[1] = "#$ " /\ line[2] = "-l h_vmem="
                           /\ SubSeq(line, cut + 1, Len(line)) = unit
                           /\ \E q \in 0..n :
                                  /\ q * c <= n /\ n < (q + 1) * c
                                  /\ IsNumeralOf(number, q)
                    /\ LET line == script.directives.cores
                       IN  /\ line[1] = "#$ " /\ line[2] = "-pe smp "
                           /\ IsNumeralOf(SubSeq(line, 3, Len(line)), c)

\* cores = 4 and memory = "8g" compiled to a per-core directive of "2g".
C8_Witness ==
    /\ compiled.target # 0
    /\ options[compiled.target].cores = 4
    /\ options[compiled.target].memory = <<"8", "g">>
    /\ compiled.script.directives.memory = <<"#$ ", "-l h_vmem=", "2", "g">>

\* ---------------------------------------------------- job states (sge.py)
\* State codes qstat reports, as character sequences: qw, r, dr.
StateCodes == {<<"q", "w">>, <<"r">>, <<"d", "r">>}

\* The handles of the tracked jobs.
TrackedJobs == {tracked[t] : t \in Targets} \ {NoJob}

\* Mutation: the running test comes first.
JobStateRunningFirst(state) ==
    IF "r" \in Range(state) \/ "t" \in Range(state) \/ "s" \in Range(state)
        THEN "RUNNING"
    ELSE IF "d" \in Range(state) \/ "E" \in Range(state) THEN "UNKNOWN"
    ELSE "SUBMITTED"

\* get_job_states, the classification of one state code.
JobState(state) ==
    IF "d" \in Range(state) \/ "E" \in Range(state) THEN "UNKNOWN"
    ELSE IF "r" \in Range(state) \/ "t" \in Range(state) \/ "s" \in Range(state)
        THEN "RUNNING"
    ELSE "SUBMITTED"

\* Mutation: one query per tracked job.
get_job_states_per_job(tracked_jobs) ==
    [job_states |-> [job_id \in DOMAIN listing |-> JobState(listing[job_id])],
     commands |-> [i \in 1..Cardinality(tracked_jobs) |-> <<"qstat", "-f", "-xml">>]]

\* get_job_states(tracked_jobs): the mapping it returns and the external
\* commands it runs. One qstat lists the whole queue; every job of the listing
\* is classified.
get_job_states(tracked_jobs) ==
    [job_states |-> [job_id \in DOMAIN listing |-> JobState(listing[job_id])],
     commands |-> << <<"qstat", "-f", "-xml">> >>]

\* A persisted registry (the first k targets have a job, target t the job t) and
\* a queue holding its jobs, all waiting.
InitStatus ==
    /\ dependencies = [t \in Targets |-> {}]
    /\ options = [t \in Targets |-> BaseOptions]
    /\ warnings = InitWarnings(options)
    /\ should_run = [t \in Targets |-> TRUE]
    /\ \E k \in 0..NumTargets :
           tracked = [t \in Targets |-> IF t <= k /\ t \in JobIds THEN t ELSE NoJob]
    /\ InitSched
    /\ InitApi
    /\ compiled = [target |-> 0]
    /\ listing = [j \in TrackedJobs |-> <<"q", "w">>]
    /\ status = <<>>
    /\ qstat_calls = 0
    /\ refreshes = 0
    /\ logfiles = <<>>
    /\ runs = [t \in Targets |-> <<>>]
    /\ log_result = [target |-> 0]

\* The status cache is refreshed: one get_job_states call for all tracked jobs;
\* the record of a job that is no longer listed is dropped.
Refresh ==
    /\ refreshes < MaxPolls
    /\ LET polled == get_job_states(TrackedJobs)
       IN  /\ status' = polled.job_states
           /\ qstat_calls' = qstat_calls + Len(polled.commands)
           /\ tracked' = [t \in Targets |->
                             IF tracked[t] \in DOMAIN polled.job_states
                             THEN tracked[t] ELSE NoJob]
    /\ refreshes' = refreshes + 1
    /\ UNCHANGED <<workflow_vars, should_run, sched_vars, hist_vars, compiled,
                   listing, logs_vars, api_vars, probe_vars>>

\* The scheduler moves a job to another state, or lists a job it did not list
\* (one of another user or workflow when no record holds its id).
QueueJobChanges ==
    \E j \in JobIds, code \in StateCodes :
        /\ listing' = [k \in DOMAIN listing \cup {j} |->
                          IF k = j THEN code ELSE listing[k]]
        /\ UNCHANGED <<workflow_vars, should_run, tracked, sched_vars, hist_vars,
                       compiled, status, qstat_calls, refreshes, logs_vars,
                       api_vars, probe_vars>>

\* A job leaves the scheduler's queue.
QueueJobLeaves ==
    \E j \in DOMAIN listing :
        /\ listing' = [k \in DOMAIN listing \ {j} |-> listing[k]]
        /\ UNCHANGED <<workflow_vars, should_run, tracked, sched_vars, hist_vars,
                       compiled, status, qstat_calls, refreshes, logs_vars,
                       api_vars, probe_vars>>

NextStatus == Refresh \/ QueueJobChanges \/ QueueJobLeaves

SpecStatus == InitStatus /\ [][NextStatus]_vars

\* C9. Status batching: every refresh of the status cache runs qstat exactly
\* once, however many jobs are tracked: the qstat invocations made so far are as
\* many as the refreshes made so far.
C9_StatusBatching == qstat_calls = refreshes

\* Two refreshes were made, the second with at least two jobs tracked.
C9_Witness ==
    /\ refreshes >= 2
    /\ Cardinality(TrackedJobs) >= 2

\* State codes of every class: waiting and held (qw, hqw), running,
\* transferring and suspended (r, t, s), and deleted or in error alone and
\* together with the others (dr, dt, Eqw).
ClassCodes ==
    {<<"q", "w">>, <<"h", "q", "w">>, <<"r">>, <<"t">>, <<"s">>,
     <<"d", "r">>, <<"d", "t">>, <<"E", "q", "w">>}

\* A persisted registry as in InitStatus and a queue that lists any jobs in any
\* of those states.
InitClassify ==
    /\ dependencies = [t \in Targets |-> {}]
    /\ options = [t \in Targets |-> BaseOptions]
    /\ warnings = InitWarnings(options)
    /\ should_run = [t \in Targets |-> TRUE]
    /\ \E k \in 0..NumTargets :
           tracked = [t \in Targets |-> IF t <= k /\ t \in JobIds THEN t ELSE NoJob]
    /\ InitSched
    /\ InitApi
    /\ compiled = [target |-> 0]
    /\ \E listed \in SUBSET JobIds : listing \in [listed -> ClassCodes]
    /\ status = <<>>
    /\ qstat_calls = 0
    /\ refreshes = 0
    /\ logfiles = <<>>
    /\ runs = [t \in Targets |-> <<>>]
    /\ log_result = [target |-> 0]

\* get_job_states is called on a queue that stands still.
SpecClassify == InitClassify /\ [][Refresh]_vars

\* The state code has the character.
Has(state, c) == \E i \in 1..Len(state) : state[i] = c

\* C13. Job state classification: the mapping get_job_states returned has a
\* key for every listed job and for no other; a code with 'd' or 'E' gives
\* UNKNOWN, also when it has 'r', 't' or 's'; any other code with 'r', 't' or
\* 's' gives RUNNING; every other code gives SUBMITTED.
C13_JobStateClassification ==
    refreshes >= 1 =>
        /\ \A job_id \in JobIds \ DOMAIN listing : job_id \notin DOMAIN status
        /\ \A job_id \in DOMAIN listing :
               /\ job_id \in DOMAIN status
               /\ LET state == listing[job_id]
                      gone == Has(state, "d") \/ Has(state, "E")
                      active == Has(state, "r") \/ Has(state, "t") \/ Has(state, "s")
                  IN  /\ gone => status[job_id] = "UNKNOWN"
                      /\ (~gone /\ active) => status[job_id] = "RUNNING"
                      /\ (~gone /\ ~active) => status[job_id] = "SUBMITTED"

\* A poll of a queue with a job being deleted while running and a job in
\* transfer, and without a third job: that one has no key.
C13_Witness ==
    /\ refreshes >= 1
    /\ \E a, b \in DOMAIN listing :
           /\ listing[a] = <<"d", "r">> /\ status[a] = "UNKNOWN"
           /\ listing[b] = <<"t">> /\ status[b] = "RUNNING"
    /\ \E c \in JobIds : c \notin DOMAIN listing /\ c \notin DOMAIN status

\* C14. Only tracked jobs are classified: every key of the mapping a
\* get_job_states(tracked_jobs) call returns is one of tracked_jobs, so a
\* listed job no record holds does not get into the status cache.
C14_OnlyTrackedClassified ==
    [][refreshes' = refreshes + 1 => DOMAIN status' \subseteq TrackedJobs]_vars

\* ------------------------------------------------------------------- logs
\* What the k-th run of a target writes to its standard output.
RunOutput(target, k) == [target |-> target, run |-> k]

\* The file logs opens for a target and a rewind: the current log file for
\* rewind 0, the file rotated away rewind runs ago otherwise.
LogPath(target, ext, rewind) == [target |-> target, ext |-> ext, rotation |-> rewind]

\* Backend.logs(target, rewind=rewind): the log's content, or NoLogFoundError
\* when no log file exists at that depth.
logs(target, rewind) ==
    LET log_path == LogPath(target, "stdout", rewind)
    IN  IF log_path \in DOMAIN logfiles
        THEN [error |-> "none", text |-> logfiles[log_path]]
        ELSE [error |-> "NoLogFoundError", text |-> <<>>]

\* A job of a target runs. The script's "-o" directive names the file its output
\* goes to; the scheduler appends to an existing file or starts it afresh.
JobRuns ==
    \E target \in Targets, appends \in BOOLEAN :
        /\ Len(runs[target]) < MaxRuns
        /\ compile_script(target).error = "none"
        /\ LET out_path == compile_script(target).stdout
               k == Len(runs[target]) + 1
               old == IF appends /\ out_path \in DOMAIN logfiles
                      THEN logfiles[out_path] ELSE <<>>
           IN  /\ logfiles' = [f \in DOMAIN logfiles \cup {out_path} |->
                                  IF f = out_path
                                  THEN Append(old, RunOutput(target, k))
                                  ELSE logfiles[f]]
               /\ runs' = [runs EXCEPT ![target] = Append(@, k)]
        /\ UNCHANGED <<workflow_vars, should_run, tracked, sched_vars, hist_vars,
                       compiled, status_vars, log_result, api_vars, probe_vars>>

\* A caller asks for a log.
Logs ==
    \E target \in Targets, rewind \in 0..MaxRuns :
        /\ log_result' = [target |-> target, rewind |-> rewind,
                          runs |-> Len(runs[target]), out |-> logs(target, rewind)]
        /\ UNCHANGED <<workflow_vars, should_run, tracked, sched_vars, hist_vars,
                       compiled, status_vars, logfiles, runs, api_vars, probe_vars>>

\* A workflow of independent targets, none run yet.
InitLogs ==
    /\ dependencies = [t \in Targets |-> {}]
    /\ options = [t \in Targets |-> BaseOptions]
    /\ warnings = InitWarnings(options)
    /\ should_run = [t \in Targets |-> TRUE]
    /\ tracked = [t \in Targets |-> NoJob]
    /\ InitSched
    /\ InitOther

NextLogs == JobRuns \/ Logs

SpecLogs == InitLogs /\ [][NextLogs]_vars

\* C10. Rewind correctness: after k >= 1 runs of a target, logs(target,
\* rewind=i) gives the output of the (i+1)-th most recent run for i < k and
\* raises NoLogFoundError for i >= k.
C10_RewindCorrectness ==
    (log_result.target # 0 /\ log_result.runs >= 1) =>
        IF log_result.rewind < log_result.runs
        THEN /\ log_result.out.error = "none"
             /\ log_result.out.text =
                    <<RunOutput(log_result.target,
                                log_result.runs - log_result.rewind)>>
        ELSE log_result.out.error = "NoLogFoundError"

\* ----------------------------------------------- calls from outside schedule
\* The handles of the dependencies of a target that have a job record, as the
\* text qsub printed, in the order of the dependencies.
DependencyIds(target) ==
    LET held == SortedSeq({d \in dependencies[target] : submitted(d)})
    IN  [i \in 1..Len(held) |-> FormatInt(tracked[held[i]])]

\* The ids qsub can print for a new job: ids no record holds, no listed job has
\* and no earlier job had.
NewJobIds == FreeJobIds \ (DOMAIN listing \cup DOMAIN job_names)

\* A call from outside schedule is made between two schedule calls: what the
\* last schedule call left is gone.
NoScheduleCall ==
    /\ pc' = "idle"
    /\ mode' = "schedule"
    /\ todo' = <<>>
    /\ root' = 0
    /\ walked' = FALSE
    /\ path' = <<>>
    /\ scheduled' = <<>>
    /\ schedules' = <<>>
    /\ submits' = <<>>
    /\ error' = "none"
    /\ job_left' = FALSE
    /\ oracle_changed' = FALSE
    /\ repeat' = FALSE

\* The outcome of a call: the exception it raised ("none" if none) and what it
\* returned.
Outcome(method, target, exception, result) ==
    [method |-> method, target |-> target, error |-> exception, result |-> result]

\* submit(target, dependencies) called from outside schedule, between two
\* schedule calls. A target with a
\* job record gives the record's handle; any other is handed to submit_target
\* with the handles of its submitted dependencies, and the job qsub accepted
\* is recorded.
Submit ==
    \E target \in Targets, accepted \in BOOLEAN :
        /\ Idle
        /\ IF NotConfigured # "none"
           THEN /\ called' = Outcome("submit", target, NotConfigured, NoJob)
                /\ UNCHANGED <<tracked, job_names, listing>>
           ELSE IF submitted(target)
           THEN /\ called' = Outcome("submit", target, "none", tracked[target])
                /\ UNCHANGED <<tracked, job_names, listing>>
           ELSE LET out == submit_target(target, DependencyIds(target))
                IN  IF out.error # "none"
                    THEN /\ called' = Outcome("submit", target, out.error, NoJob)
                         /\ UNCHANGED <<tracked, job_names, listing>>
                    ELSE IF accepted
                    THEN /\ NewJobIds # {}
                         /\ LET job == Min(NewJobIds)
                            IN  /\ tracked' = [tracked EXCEPT ![target] = job]
                                /\ job_names' = [k \in DOMAIN job_names \cup {job} |->
                                                    IF k = job THEN target
                                                    ELSE job_names[k]]
                                /\ listing' = [k \in DOMAIN listing \cup {job} |->
                                                  IF k = job THEN <<"q", "w">>
                                                  ELSE listing[k]]
                                /\ called' = Outcome("submit", target, "none", job)
                    ELSE /\ called' = Outcome("submit", target, "SubmissionError", NoJob)
                         /\ UNCHANGED <<tracked, job_names, listing>>
        /\ NoScheduleCall
        /\ UNCHANGED <<workflow_vars, should_run, compiled,
                       status, qstat_calls, refreshes, logs_vars, configured,
                       probe_vars>>

\* cancel(target) called from outside schedule: the job of a target with a job
\* record is deleted from the queue and the record is dropped.
Cancel ==
    \E target \in Targets :
        /\ Idle
        /\ IF NotConfigured # "none"
           THEN /\ called' = Outcome("cancel", target, NotConfigured, <<>>)
                /\ UNCHANGED <<tracked, listing>>
           ELSE IF ~submitted(target)
           THEN /\ called' = Outcome("cancel", target, "NotTrackedError", <<>>)
                /\ UNCHANGED <<tracked, listing>>
           ELSE /\ called' = Outcome("cancel", target, "none",
                                     cancel_job(FormatInt(tracked[target])).commands)
                /\ tracked' = [tracked EXCEPT ![target] = NoJob]
                /\ listing' = [k \in DOMAIN listing \ {tracked[target]} |-> listing[k]]
        /\ NoScheduleCall
        /\ UNCHANGED <<workflow_vars, should_run, compiled,
                       status, qstat_calls, refreshes, logs_vars, configured, job_names,
                       probe_vars>>

\* running(target): the status cache has the target's job as running.
running(target) ==
    /\ submitted(target)
    /\ tracked[target] \in DOMAIN status
    /\ status[tracked[target]] = "RUNNING"

\* submitted(target), running(target) or logs(target) called from outside
\* schedule.
Query ==
    \E target \in Targets, method \in {"submitted", "running", "logs"} :
        /\ Idle
        /\ called' =
               IF NotConfigured # "none"
                   THEN Outcome(method, target, NotConfigured, <<>>)
               ELSE IF method = "submitted"
                   THEN Outcome(method, target, "none", submitted(target))
               ELSE IF method = "running"
                   THEN Outcome(method, target, "none", running(target))
               ELSE Outcome(method, target, logs(target, 0).error, logs(target, 0).text)
        /\ NoScheduleCall
        /\ UNCHANGED <<workflow_vars, should_run, tracked,
                       compiled, status_vars, logs_vars, configured, job_names, probe_vars>>

\* configure(options) is called, once, between two calls.
Configure ==
    /\ ~configured
    /\ Idle
    /\ configured' = TRUE
    /\ UNCHANGED <<workflow_vars, should_run, tracked, sched_vars, hist_vars,
                   compiled, status_vars, logs_vars, called, job_names, probe_vars>>

\* A backend just constructed for a workflow in which every target depends on
\* the one before it: configure was not called yet.
InitConfig ==
    /\ dependencies = [t \in Targets |-> {t - 1} \cap Targets]
    /\ options = [t \in Targets |-> BaseOptions]
    /\ warnings = InitWarnings(options)
    /\ should_run = [t \in Targets |-> TRUE]
    /\ tracked = [t \in Targets |-> NoJob]
    /\ InitSched
    /\ configured = FALSE
    /\ InitCalled
    /\ InitProbe
    /\ InitData

NextConfig ==
    \/ Configure
    \/ ScheduleCall
    \/ ScheduleManyCall
    \/ Enter
    \/ Visit
    \/ Return
    \/ Submit
    \/ Cancel
    \/ Query

SpecConfig == InitConfig /\ [][NextConfig]_vars

\* The registry holds no record and no job was submitted.
NothingSubmitted ==
    /\ job_names = <<>>
    /\ listing = <<>>
    /\ submits = <<>>
    /\ \A t \in Targets : tracked[t] = NoJob

\* C12 as stated: while configure has not been called, every call of submit,
\* cancel, submitted, running, logs, schedule or schedule_many that ended
\* ended with ConfigurationError, and nothing was submitted.
C12_ConfigureBeforeUseAsStated ==
    ~configured =>
        /\ called.method # "none" => called.error = "ConfigurationError"
        /\ pc # "walk" /\ pc # "returned"
        /\ pc = "raised" => error = "ConfigurationError"
        /\ NothingSubmitted

\* C12, amended: the same, but for schedule_many of an empty list, which calls
\* no method of the backend and returns its empty list.
C12_ConfigureBeforeUse ==
    ~configured =>
        /\ called.method # "none" => called.error = "ConfigurationError"
        /\ pc # "walk"
        /\ pc = "returned" => (mode = "schedule_many" /\ schedules = <<>> /\ root = 0)
        /\ pc = "raised" => error = "ConfigurationError"
        /\ NothingSubmitted

\* Before configure, a schedule_many of two targets ended with
\* ConfigurationError at the first of them.
C12_Witness ==
    /\ ~configured
    /\ pc = "raised" /\ mode = "schedule_many" /\ Len(todo) = 1
    /\ error = "ConfigurationError"

\* A configured backend for the workflow of InitConfig, nothing submitted yet.
InitSubmit ==
    /\ dependencies = [t \in Targets |-> {t - 1} \cap Targets]
    /\ options = [t \in Targets |-> BaseOptions]
    /\ warnings = InitWarnings(options)
    /\ should_run = [t \in Targets |-> TRUE]
    /\ tracked = [t \in Targets |-> NoJob]
    /\ InitSched
    /\ InitOther

NextSubmit == Submit \/ QueueJobLeaves \/ Refresh

SpecSubmit == InitSubmit /\ [][NextSubmit]_vars

\* The jobs submitted for a target that are still in the queue.
LiveJobs(target) ==
    {job \in DOMAIN job_names \cap DOMAIN listing : job_names[job] = target}

\* C11. Idempotent submit: a submit(T) call made while T has a job record
\* returns that record's handle, runs no qsub and leaves the registry and the
\* queue as they are; and at no time has a target two jobs in the queue.
C11_IdempotentSubmit ==
    /\ [][\A t \in Targets :
             (/\ tracked[t] # NoJob
              /\ called' # called
              /\ called'.method = "submit" /\ called'.target = t)
             => /\ called'.error = "none"
                /\ called'.result = tracked[t]
                /\ job_names' = job_names
                /\ tracked' = tracked
                /\ listing' = listing]_vars
    /\ [](\A t \in Targets : Cardinality(LiveJobs(t)) <= 1)

\* The last call was submit(T) for a T submitted before another target was
\* (job ids grow): it returned T's handle, and T's job is still the only one
\* of T.
C11_Witness ==
    /\ called.method = "submit" /\ called.error = "none"
    /\ called.result = tracked[called.target]
    /\ LiveJobs(called.target) = {called.result}
    /\ \E job \in DOMAIN job_names :
           job > called.result /\ job_names[job] # called.target

\* ------------------------------------------- submitting one target (sge.py)
\* Job ids of one and of two digits, and every list of up to MaxHolds handles
\* (the text of such ids) a caller can pass as dependencies.
HoldIds == JobIds \cup {10 + job_id : job_id \in JobIds}

HoldLists ==
    UNION {[1..k -> {FormatInt(job_id) : job_id \in HoldIds}] : k \in 0..MaxHolds}

\* submit_target(target, dependencies) is called.
SubmitTarget ==
    \E target \in Targets, dependency_ids \in HoldLists :
        /\ called' = [method |-> "submit_target", target |-> target,
                      dependencies |-> dependency_ids,
                      error |-> submit_target(target, dependency_ids).error,
                      commands |-> submit_target(target, dependency_ids).commands]
        /\ UNCHANGED <<workflow_vars, should_run, tracked, sched_vars, hist_vars,
                       compiled, status_vars, logs_vars, configured, job_names,
                       probe_vars>>

\* A workflow as in Init: at most one target carries an unsupported option.
InitHold ==
    /\ dependencies = [t \in Targets |-> {}]
    /\ options \in OptionMaps
    /\ warnings = InitWarnings(options)
    /\ should_run = [t \in Targets |-> TRUE]
    /\ tracked = [t \in Targets |-> NoJob]
    /\ InitSched
    /\ InitOther

SpecHold == InitHold /\ [][SubmitTarget]_vars

\* The parts of a text between the separators.
RECURSIVE Split(_, _)
Split(text, sep) ==
    IF text = <<>> THEN << <<>> >>
    ELSE IF Head(text) = sep THEN << <<>> >> \o Split(Tail(text), sep)
    ELSE LET rest == Split(Tail(text), sep)
         IN  << <<Head(text)>> \o Head(rest) >> \o Tail(rest)

\* The arguments have no hold option for no dependency, and otherwise one
\* "-hold_jid" followed by the handles in the given order, comma-separated.
HoldDirective(args, dependency_ids) ==
    LET holds == {i \in 1..Len(args) : args[i] = <<"-hold_jid">>}
    IN  IF dependency_ids = <<>>
        THEN holds = {}
        ELSE /\ Cardinality(holds) = 1
             /\ \A i \in holds :
                    /\ i < Len(args)
                    /\ Split(args[i + 1], ",") = dependency_ids

\* C15. Hold directive: every submit_target(target, dependencies) call runs
\* qsub exactly once, with the script of the given target, and the invocation
\* has one "-hold_jid" naming the given handles in the given order when there
\* are dependencies, and none when there are none.
C15_HoldDirective ==
    called.method = "submit_target" =>
        /\ Len(called.commands) = 1
        /\ called.commands[1].exe = "qsub"
        /\ called.commands[1].input.name = called.target
        /\ HoldDirective(called.commands[1].args, called.dependencies)

\* ------------------------------------------------ the backend's entry (sge.py)
\* The executables a host can have: those of this scheduler and of another.
Executables == {"qsub", "qdel", "qstat", "sbatch", "squeue", "scancel"}

\* Any host, before the backend's module is imported.
InitImport ==
    /\ dependencies = [t \in Targets |-> {}]
    /\ options = [t \in Targets |-> BaseOptions]
    /\ warnings = InitWarnings(options)
    /\ should_run = [t \in Targets |-> TRUE]
    /\ tracked = [t \in Targets |-> NoJob]
    /\ InitSched
    /\ configured = FALSE
    /\ InitCalled
    /\ exes \in SUBSET Executables
    /\ setup = [probed |-> FALSE, priority |-> 0]
    /\ InitData

\* The module is imported: setup = (create_backend, priority()).
Import ==
    /\ ~setup.probed
    /\ setup' = [probed |-> TRUE, priority |-> priority]
    /\ UNCHANGED <<workflow_vars, should_run, tracked, sched_vars, hist_vars,
                   compiled, status_vars, logs_vars, api_vars, exes>>

SpecProbe == InitImport /\ [][Import]_vars

\* C16. Availability probe: the priority of the entry is -100 whenever qsub,
\* qdel or qstat is not on the host, and 50 only when all three are.
C16_AvailabilityProbe ==
    setup.probed =>
        /\ ~({"qsub", "qdel", "qstat"} \subseteq exes) => setup.priority = -100
        /\ setup.priority = 50 => {"qsub", "qdel", "qstat"} \subseteq exes

\* ------------------------------------------------------ scheduling properties
\* Nothing external changed since the call in progress began.
Quiet == ~job_left /\ ~oracle_changed

Last(s) == s[Len(s)]

\* C1. Idempotent scheduling: when schedule(T) is called again right after a
\* schedule(T) that returned, and no job left the queue and no oracle answer
\* changed since that first call began, the second call calls submit for no
\* target, raises nothing and returns the empty list.
C1_IdempotentScheduling ==
    (mode = "schedule" /\ repeat /\ Quiet) =>
        /\ submits = <<>>
        /\ pc # "raised"
        /\ pc = "returned" => schedules = << <<>> >>

\* The second call returned after walking the graph again: T itself is not
\* submitted (it is up to date) while one of its dependencies is.
C1_Witness ==
    /\ mode = "schedule" /\ repeat /\ Quiet /\ pc = "returned"
    /\ walked
    /\ \E d \in Closure(root) : submitted(d)

\* C2. Dependency before dependent: among the targets one schedule(T) call
\* submits, a dependency is submitted strictly before every target that
\* depends on it, and T, when submitted, is submitted last.
C2_DependencyBeforeDependent ==
    mode = "schedule" =>
        /\ \A i, j \in 1..Len(submits) :
               submits[j] \in dependencies[submits[i]] => j < i
        /\ root \in Range(submits) => Last(submits) = root

\* A call that submitted a dependency and then its dependent, T last.
C2_Witness ==
    /\ mode = "schedule" /\ pc = "returned"
    /\ Len(submits) >= 2
    /\ Last(submits) = root
    /\ submits[1] \in dependencies[root]

\* C3. Staleness skip: every step that calls submit calls it on a target for
\* which should_run is true at that step.
C3_StalenessSkip ==
    [][Len(submits') = Len(submits) + 1 => should_run[Last(submits')]]_vars

\* A call that submitted some target and passed over an up-to-date one: it
\* returned, the oracle did not move, and a target of the walk that is not
\* submitted has should_run false.
C3_Witness ==
    /\ pc = "returned" /\ mode = "schedule" /\ Quiet
    /\ submits # <<>>
    /\ \E d \in Closure(root) : ~should_run[d] /\ ~submitted(d)

\* C4 as stated: after schedule(T) returns, every target of T's transitive
\* dependency set is submitted or has should_run false, whatever the tracked
\* state was when the call began.
C4_AllVisitedAsStated ==
    (pc = "returned" /\ mode = "schedule" /\ Quiet) =>
        \A d \in Closure(root) : submitted(d) \/ ~should_run[d]

\* C4, amended: the same, for a call that found T itself not submitted when
\* it began (a call on a submitted T returns at once and walks nothing).
C4_AllVisitedWhenRootUnsubmitted ==
    (pc = "returned" /\ mode = "schedule" /\ Quiet /\ walked) =>
        \A d \in Closure(root) : submitted(d) \/ ~should_run[d]

\* A walk over at least three targets that submitted two and skipped a third
\* as up to date.
C4_Witness ==
    /\ pc = "returned" /\ mode = "schedule" /\ Quiet /\ walked
    /\ Len(submits) >= 2
    /\ \E d \in Closure(root) : ~should_run[d]

\* C5. No duplicate submission across schedule_many: while no job leaves the
\* queue during the call, submit is called at most once per target, and no
\* target is in two of the per-target lists.
C5_NoDuplicateSubmission ==
    (mode = "schedule_many" /\ ~job_left) =>
        \A t \in Targets :
            /\ Count(submits, t) <= 1
            /\ Count(Flatten(schedules) \o scheduled, t) <= 1

\* schedule_many of two targets returned two non-empty lists, and a target
\* submitted for the first is a dependency of the second.
C5_Witness ==
    /\ mode = "schedule_many" /\ ~job_left /\ pc = "returned"
    /\ Len(schedules) = 2
    /\ schedules[1] # <<>> /\ schedules[2] # <<>>
    /\ \E d \in Range(schedules[1]) : d \in Closure(root)

\* C6. Unsupported option tolerance: a target that carries an option the
\* backend does not support is warned about at construction and is then
\* submitted like any other: when its submission fails, it is the scheduler
\* that rejected it (SubmissionError), never the backend's own script compiler.
C6_UnsupportedOptionTolerance ==
    (pc = "raised" /\ ~(DOMAIN options[Last(submits)] \subseteq supported_options)) =>
        error = "SubmissionError"

\* C7. A failed submission is propagated without retry or rollback: the call
\* ends at the failing submit with the error, the walk stands still at the
\* failed target, which was passed to submit once and is not submitted, and
\* the targets submitted before it in the call are still submitted (as long as
\* no job leaves the queue).
C7_FailurePropagates ==
    error = "SubmissionError" =>
        /\ pc = "raised"
        /\ Head(path) = Last(submits)
        /\ Range(Flatten(schedules) \o scheduled) = Range(SubSeq(submits, 1, Len(submits) - 1))
        /\ ~job_left =>
               /\ Count(submits, Last(submits)) = 1
               /\ ~submitted(Last(submits))
               /\ \A i \in 1..(Len(submits) - 1) : submitted(submits[i])

\* The scheduler rejected a target after accepting another in the same call.
C7_Witness ==
    /\ pc = "raised" /\ error = "SubmissionError" /\ ~job_left
    /\ Len(submits) >= 2

\* C17 as stated: every step that calls submit(X) finds every direct
\* dependency of X submitted or with should_run false.
C17_HandlesBeforeHoldsAsStated ==
    [][Len(submits') = Len(submits) + 1 =>
          \A d \in dependencies[Last(submits')] : submitted(d) \/ ~should_run[d]]_vars

\* C17, amended: the same, for the steps of a call during which no job left
\* the queue and no oracle answer changed.
C17_HandlesBeforeHolds ==
    [][(Len(submits') = Len(submits) + 1 /\ Quiet) =>
          \A d \in dependencies[Last(submits')] : submitted(d) \/ ~should_run[d]]_vars

\* A call submitted a target with two dependencies: one it had submitted just
\* before, the other up to date and without a job.
C17_Witness ==
    /\ mode = "schedule" /\ Quiet
    /\ Len(submits) >= 2
    /\ submits[1] \in dependencies[submits[2]]
    /\ submitted(submits[1])
    /\ \E d \in dependencies[submits[2]] : ~submitted(d) /\ ~should_run[d]

\* No target is in the list twice.
NoRepeats(s) == \A i, j \in 1..Len(s) : s[i] = s[j] => i = j

\* C18. The list schedule(T) returns: the local list is at all times the
\* targets the call has passed to submit with success, in that order (all of
\* them but the last when the call ended at a failing submit), so the list
\* returned is that sequence; it has no target twice and only targets of T's
\* transitive dependency set; and a target is put on the list only by a step
\* that found it not submitted and with should_run true.
C18_ReturnedList ==
    /\ [](mode = "schedule" =>
            /\ pc = "walk" => scheduled = submits
            /\ pc = "raised" => scheduled = SubSeq(submits, 1, Len(submits) - 1)
            /\ pc = "returned" =>
                   /\ schedules = <<submits>>
                   /\ NoRepeats(schedules[1])
                   /\ Range(schedules[1]) \subseteq Closure(root))
    /\ [][Len(scheduled') = Len(scheduled) + 1 =>
             /\ ~submitted(Last(scheduled'))
             /\ should_run[Last(scheduled')]
             /\ tracked'[Last(scheduled')] # NoJob]_vars

\* A call returned a list of two targets and left a third target of the walk
\* out of it.
C18_Witness ==
    /\ mode = "schedule" /\ pc = "returned"
    /\ Len(schedules[1]) = 2
    /\ \E d \in Closure(root) : d \notin Range(schedules[1])

\* C19. Root short-circuit: the step of schedule(T) that finds T submitted
\* ends the call: it returns the empty list (schedule_many goes on with it),
\* calls submit for no target, starts no walk, so that no should_run is read,
\* and leaves the registry as it is.
C19_RootShortCircuit ==
    [][(pc = "enter" /\ todo' # todo /\ submitted(Head(todo))) =>
          /\ schedules' = Append(schedules, <<>>)
          /\ pc' = IF todo' = <<>> THEN "returned" ELSE "enter"
          /\ path' = <<>>
          /\ submits' = submits
          /\ tracked' = tracked]_vars

\* schedule(T) returned at once for a submitted T that has a stale dependency
\* without a job.
C19_Witness ==
    /\ mode = "schedule" /\ pc = "returned" /\ Quiet
    /\ ~walked
    /\ submitted(root)
    /\ schedules = << <<>> >>
    /\ \E d \in Closure(root) : ~submitted(d) /\ should_run[d]

====
